---- MODULE Spec2Model ----
(***************************************************************************)
(* A model of bytelatent/eval.py: the lm-eval harness adapter              *)
(* (EvalHarnessLM) over a generator with mutable sampling fields, the      *)
(* perplexity loop eval_ppl_on_path and the validation loop eval_on_val.   *)
(*                                                                         *)
(* Text is a sequence of one-character strings.  A Python dict of          *)
(* generation arguments is a record over the four keys the adapter reads;  *)
(* a key that is absent has the value <<>> and a key that is present with  *)
(* value v has the value <<v>>, so record equality is dict equality.       *)
(* The generator, the tokenizer, the model and the batch iterator are      *)
(* external collaborators: what they return is chosen with \E from small   *)
(* sets, and each of them may raise.                                       *)
(***************************************************************************)
EXTENDS Integers, Sequences, FiniteSets, TLC

VARIABLES
    gen,          \* the generator's fields: temperature, top_p, top_k, until, max_gen_len
    gen0,         \* the generator's fields when the adapter was constructed
    pc,           \* "idle", or the adapter method that is inside generator.generate
    op,           \* the adapter method called last
    requests,     \* req.args of each request of that call
    max_gen_len,  \* the local max_gen_len saved by loglikelihood / loglikelihood_rolling
    pre,          \* the generator's fields when that call began
    seen,         \* the generator's fields at each generator.generate of that call
    generations,  \* what generate returned to generate_until
    lls,          \* what generate returned: per-request log-likelihood arrays
    greedy,       \* what generate returned: per-request greedy-match arrays
    outcome,      \* "none", "running", "ok" or the exception that left the call
    results,      \* the list the call returned
    failed,       \* some adapter call so far ended in an exception
    f_until,      \* stop-string loop: the stop strings
    f_raw,        \* stop-string loop: the raw generation
    f_g,          \* stop-string loop: the local g
    f_i,          \* stop-string loop: number of stop strings applied so far
    p_pc,         \* eval_ppl_on_path: "init", "loop", "done"
    p_name,       \* tokenizer_args.name
    p_batches,    \* the batches the iterator has yielded so far
    total_loss,   \* eval_ppl_on_path's total_loss
    n_bytes,      \* eval_ppl_on_path's n_bytes
    p_outcome,    \* "none", "ok" or the exception raised
    p_result,     \* the returned dict
    v_pc,         \* eval_on_val: "init", "loop", "done"
    v_srcs,       \* eval_on_val's srcs: the joined paths in order
    path_to_iter, \* the keys of eval_on_val's path_to_iter, in insertion order
    v_i,          \* how many keys of path_to_iter the loop has finished
    v_outcome,    \* "none", "ok" or the exception raised
    all_val_metrics \* eval_on_val's all_val_metrics: name -> metrics

harnessVars == <<gen, gen0, pc, op, requests, max_gen_len, pre, seen, generations,
                 lls, greedy, outcome, results, failed>>
filterVars == <<f_until, f_raw, f_g, f_i>>
pplVars == <<p_pc, p_name, p_batches, total_loss, n_bytes, p_outcome, p_result>>
valVars == <<v_pc, v_srcs, path_to_iter, v_i, v_outcome, all_val_metrics>>
vars == <<harnessVars, filterVars, pplVars, valVars>>

----------------------------------------------------------------------------
(* Bounds *)

MaxReq == 2      \* requests in one batch
MaxLen == 4      \* characters in one raw generation of the stop-string loop
MaxStops == 2    \* stop strings in one `until` list of the stop-string loop
MaxStopLen == 2  \* characters in one stop string of the stop-string loop
MaxTok == 2      \* positions in one log-likelihood array
MaxGenLen == 2   \* the generator's max_gen_len at construction

Alphabet == {"a", "b"}

Strings(n) == UNION {[1..k -> Alphabet] : k \in 0..n}

SeqsUpTo(S, n) == UNION {[1..k -> S] : k \in 0..n}

RECURSIVE SumSeq(_)
SumSeq(s) == IF s = <<>> THEN 0 ELSE Head(s) + SumSeq(Tail(s))

----------------------------------------------------------------------------
(* Generation arguments and generator fields *)

None == "None"

GenArgs(t, p, k, u) == [temperature |-> t, top_p |-> p, top_k |-> k, until |-> u]

\* dict.get(key, default)
get(d, key, default) == IF d[key] = <<>> THEN default ELSE d[key][1]

\* The `until` lists the harness batches carry.
UntilLists == {<< <<"b">> >>}

GenArgsSet ==
    {GenArgs(s[1], s[2], s[3], u) :
        s \in {<< <<>>, <<>>, <<>> >>, << <<"1.0">>, <<"0.9">>, <<"5">> >>},
        u \in {<<>>} \cup {<<l>> : l \in UntilLists}}

Generator(t, p, k, u, m) ==
    [temperature |-> t, top_p |-> p, top_k |-> k, until |-> u, max_gen_len |-> m]

\* all_dicts_same with a comparison against the first dict's temperature only
all_dicts_same_temperature_only(dict_list) ==
    IF dict_list = <<>> THEN TRUE
    ELSE \A i \in 1..Len(dict_list) : dict_list[i].temperature = dict_list[1].temperature

all_dicts_same(dict_list) ==
    IF dict_list = <<>> THEN TRUE
    ELSE \A i \in 1..Len(dict_list) : dict_list[i] = dict_list[1]

----------------------------------------------------------------------------
(* str.replace(e, "") and the stop-string loop *)

\* str.replace(e, "", 1): only the first occurrence goes
RECURSIVE replace_first(_, _)
replace_first(g, e) ==
    IF Len(e) = 0 \/ Len(g) < Len(e) THEN g
    ELSE IF SubSeq(g, 1, Len(e)) = e THEN SubSeq(g, Len(e) + 1, Len(g))
    ELSE <<Head(g)>> \o replace_first(Tail(g), e)

\* g.replace(e, ""): one left-to-right pass, every non-overlapping occurrence goes
RECURSIVE replace(_, _)
replace(g, e) ==
    IF Len(e) = 0 \/ Len(g) < Len(e) THEN g
    ELSE IF SubSeq(g, 1, Len(e)) = e THEN replace(SubSeq(g, Len(e) + 1, Len(g)), e)
    ELSE <<Head(g)>> \o replace(Tail(g), e)

\* for e in until: g = g.replace(e, "")
RECURSIVE filter(_, _)
filter(g, until) ==
    IF until = <<>> THEN g ELSE filter(replace(g, Head(until)), Tail(until))

----------------------------------------------------------------------------
(* EvalHarnessLM *)

Prompts == {<<"a">>}
Contexts == {<<>>, <<"a">>}
Continuations == {<<"b">>}

\* One position of generator.generate's output: the token's log-likelihood and
\* whether it was the argmax (-1 where it was, -2 where it was not).
TokPairs == {<<-1, TRUE>>, <<-2, FALSE>>}

\* One request's output of generator.generate, position by position.
TokOut == SeqsUpTo(TokPairs, MaxTok)

\* tokenizer.encode(p, add_bos=False, add_eos=False) of the byte-level
\* tokenizer: one token per character, no special tokens.
encode(p) == [i \in 1..Len(p) |-> IF p[i] = "a" THEN 97 ELSE 98]

\* s[k:]
slice_from(s, k) == IF k >= Len(s) THEN <<>> ELSE SubSeq(s, k + 1, Len(s))

\* tensor.all()
all(s) == \A i \in 1..Len(s) : s[i]

IdleFilter ==
    /\ f_until = <<>>
    /\ f_raw = <<>>
    /\ f_g = <<>>
    /\ f_i = 0

IdlePpl ==
    /\ p_pc = "init"
    /\ p_name = "none"
    /\ p_batches = <<>>
    /\ total_loss = 0
    /\ n_bytes = 0
    /\ p_outcome = "none"
    /\ p_result = <<>>

IdleVal ==
    /\ v_pc = "init"
    /\ v_srcs = <<>>
    /\ path_to_iter = <<>>
    /\ v_i = 0
    /\ v_outcome = "none"
    /\ all_val_metrics = <<>>

InitGenerator ==
    /\ gen \in {Generator("0.6", "0.9", None, <<>>, m) : m \in 1..MaxGenLen}
    /\ gen0 = gen
    /\ max_gen_len = 0

\* A generator no method of which is called.
IdleGenerator ==
    /\ gen = Generator("0.6", "0.9", None, <<>>, MaxGenLen)
    /\ gen0 = gen
    /\ max_gen_len = 0

IdleHarness ==
    /\ pc = "idle"
    /\ op = "none"
    /\ requests = <<>>
    /\ pre = gen
    /\ seen = <<>>
    /\ generations = <<>>
    /\ lls = <<>>
    /\ greedy = <<>>
    /\ outcome = "none"
    /\ results = <<>>
    /\ failed = FALSE

Init == InitGenerator /\ IdleHarness /\ IdleFilter /\ IdlePpl /\ IdleVal

\* What every call does on entry: forget the previous call's record.
Enter(name, reqs) ==
    /\ pc = "idle"
    /\ op' = name
    /\ requests' = reqs
    /\ pre' = gen
    /\ generations' = <<>>
    /\ lls' = <<>>
    /\ greedy' = <<>>
    /\ results' = <<>>
    /\ UNCHANGED gen0

\* The call leaves with exception exc before generator.generate was reached.
RaiseEarly(exc) ==
    /\ outcome' = exc
    /\ failed' = TRUE
    /\ seen' = <<>>
    /\ UNCHANGED <<gen, pc, max_gen_len>>

\* generate_until, lines 85-97: up to the call of generator.generate
generate_until_call(reqs) ==
    /\ Enter("generate_until", reqs)
    /\ IF reqs = <<>>
       THEN RaiseEarly("ValueError")
       ELSE LET gen_args == [i \in 1..Len(reqs) |-> reqs[i][2]]
                first == gen_args[1]
            IN IF ~all_dicts_same(gen_args)
               THEN RaiseEarly("AssertionError")
               ELSE /\ gen' = [gen EXCEPT !.temperature = get(first, "temperature", "0.0"),
                                          !.top_p = get(first, "top_p", None),
                                          !.top_k = get(first, "top_k", None),
                                          !.until = get(first, "until", <<>>)]
                    /\ seen' = <<gen'>>
                    /\ pc' = "generate_until"
                    /\ outcome' = "running"
                    /\ UNCHANGED <<max_gen_len, failed>>

\* generate_until, lines 97-103: generate returns, the stop strings are removed
generate_until_return(gs) ==
    /\ pc = "generate_until"
    /\ LET until == get(requests[1][2], "until", <<>>)
       IN results' = [i \in 1..Len(gs) |-> filter(gs[i], until)]
    /\ generations' = gs
    /\ pc' = "idle"
    /\ outcome' = "ok"
    /\ UNCHANGED <<gen, gen0, op, requests, max_gen_len, pre, seen, lls, greedy, failed>>

\* loglikelihood, lines 106-111: up to the call of generator.generate
loglikelihood_call(reqs) ==
    /\ Enter("loglikelihood", reqs)
    /\ IF reqs = <<>>
       THEN RaiseEarly("ValueError")
       ELSE /\ max_gen_len' = gen.max_gen_len
            /\ gen' = [gen EXCEPT !.max_gen_len = 1]
            /\ seen' = <<gen'>>
            /\ pc' = "loglikelihood"
            /\ outcome' = "running"
            /\ UNCHANGED failed

\* line 117 with the slices forgotten: the context's positions are counted too
ll_result_whole(p, ll, gr) == <<SumSeq(ll), all(gr)>>

\* The pair loglikelihood appends for one request, lines 114-117.
ll_result(p, ll, gr) ==
    LET p_len == Len(encode(p))
    IN <<SumSeq(slice_from(ll, p_len)), all(slice_from(gr, p_len))>>

\* loglikelihood, lines 111-120: generate returns, the results are built
loglikelihood_return(o, encode_raises) ==
    /\ pc = "loglikelihood"
    /\ Len(o) = Len(requests)
    /\ pc' = "idle"
    /\ IF encode_raises
       THEN /\ outcome' = "EncodeError"
            /\ failed' = TRUE
            /\ UNCHANGED <<gen, results, lls, greedy>>
       ELSE /\ lls' = [i \in 1..Len(o) |-> [k \in 1..Len(o[i]) |-> o[i][k][1]]]
            /\ greedy' = [i \in 1..Len(o) |-> [k \in 1..Len(o[i]) |-> o[i][k][2]]]
            /\ results' = [i \in 1..Len(o) |-> ll_result(requests[i][1], lls'[i], greedy'[i])]
            /\ gen' = [gen EXCEPT !.max_gen_len = max_gen_len]
            /\ outcome' = "ok"
            /\ UNCHANGED failed
    /\ UNCHANGED <<gen0, op, requests, max_gen_len, pre, seen, generations>>

\* loglikelihood_rolling, lines 123-127: up to the call of generator.generate
loglikelihood_rolling_call(reqs) ==
    /\ Enter("loglikelihood_rolling", reqs)
    /\ max_gen_len' = gen.max_gen_len
    /\ gen' = [gen EXCEPT !.max_gen_len = 1]
    /\ seen' = <<gen'>>
    /\ pc' = "loglikelihood_rolling"
    /\ outcome' = "running"
    /\ UNCHANGED failed

\* loglikelihood_rolling, lines 127-133: generate returns, the results are built
loglikelihood_rolling_return(o) ==
    /\ pc = "loglikelihood_rolling"
    /\ Len(o) = Len(requests)
    /\ lls' = [i \in 1..Len(o) |-> [k \in 1..Len(o[i]) |-> o[i][k][1]]]
    /\ results' = [i \in 1..Len(o) |-> <<SumSeq(lls'[i])>>]
    /\ gen' = [gen EXCEPT !.max_gen_len = max_gen_len]
    /\ pc' = "idle"
    /\ outcome' = "ok"
    /\ UNCHANGED <<gen0, op, requests, max_gen_len, pre, seen, generations, greedy, failed>>

\* generator.generate raises (lines 97, 111, 127): nothing catches it, the
\* exception leaves the adapter method at once.
generate_raises ==
    /\ pc # "idle"
    /\ pc' = "idle"
    /\ outcome' = "GenerateError"
    /\ failed' = TRUE
    /\ UNCHANGED <<gen, gen0, op, requests, max_gen_len, pre, seen, generations,
                   lls, greedy, results>>

----------------------------------------------------------------------------
(* The adapter under an evaluation driver: any method, any batch.  The     *)
(* generator's outputs are drawn from two values per request.              *)

OtherThanHarness == <<filterVars, pplVars, valVars>>

DriverGens == {<<"b">>, <<"a", "b">>}
DriverTokOut == {<< <<-1, TRUE>> >>, << <<-1, TRUE>>, <<-2, FALSE>> >>}

GenerateUntilCall ==
    /\ pc = "idle"
    /\ \E reqs \in SeqsUpTo(Prompts \X GenArgsSet, MaxReq) : generate_until_call(reqs)
    /\ UNCHANGED OtherThanHarness

GenerateUntilReturn ==
    /\ pc = "generate_until"
    /\ \E gs \in [1..Len(requests) -> DriverGens] : generate_until_return(gs)
    /\ UNCHANGED OtherThanHarness

LoglikelihoodCall ==
    /\ pc = "idle"
    /\ \E reqs \in SeqsUpTo(Contexts \X Continuations, MaxReq) : loglikelihood_call(reqs)
    /\ UNCHANGED OtherThanHarness

LoglikelihoodReturn ==
    /\ pc = "loglikelihood"
    /\ \E o \in [1..Len(requests) -> DriverTokOut], encode_raises \in BOOLEAN :
           loglikelihood_return(o, encode_raises)
    /\ UNCHANGED OtherThanHarness

LoglikelihoodRollingCall ==
    /\ pc = "idle"
    /\ \E reqs \in SeqsUpTo(Contexts, MaxReq) :
           loglikelihood_rolling_call([i \in 1..Len(reqs) |-> <<reqs[i]>>])
    /\ UNCHANGED OtherThanHarness

LoglikelihoodRollingReturn ==
    /\ pc = "loglikelihood_rolling"
    /\ \E o \in [1..Len(requests) -> DriverTokOut] : loglikelihood_rolling_return(o)
    /\ UNCHANGED OtherThanHarness

GenerateRaises ==
    /\ generate_raises
    /\ UNCHANGED OtherThanHarness

Next ==
    \/ GenerateUntilCall
    \/ LoglikelihoodCall
    \/ LoglikelihoodRollingCall
    \/ GenerateRaises
    \/ GenerateUntilReturn
    \/ LoglikelihoodReturn
    \/ LoglikelihoodRollingReturn

Spec == Init /\ [][Next]_vars

----------------------------------------------------------------------------
(* loglikelihood alone, over every output the generator can give within    *)
(* MaxTok positions per request.                                           *)

LoglikelihoodReturnAny ==
    /\ pc = "loglikelihood"
    /\ \E o \in [1..Len(requests) -> TokOut], encode_raises \in BOOLEAN :
           loglikelihood_return(o, encode_raises)
    /\ UNCHANGED OtherThanHarness

NextLL ==
    \/ LoglikelihoodCall
    \/ LoglikelihoodReturnAny
    \/ GenerateRaises

SpecLL == Init /\ [][NextLL]_vars

----------------------------------------------------------------------------
(* The stop-string loop of generate_until (lines 99-102) on one generation, *)
(* one stop string per step, for every `until` list and raw generation      *)
(* within the bounds.                                                       *)

Stops == Strings(MaxStopLen)

InitFilter ==
    /\ IdleGenerator /\ IdleHarness /\ IdlePpl /\ IdleVal
    /\ f_until \in SeqsUpTo(Stops, MaxStops)
    /\ f_raw \in Strings(MaxLen)
    /\ f_g = f_raw
    /\ f_i = 0

\* one iteration of `for e in until: g = g.replace(e, "")`
FilterStep ==
    /\ f_i < Len(f_until)
    /\ f_g' = replace(f_g, f_until[f_i + 1])
    /\ f_i' = f_i + 1
    /\ UNCHANGED <<f_until, f_raw, harnessVars, pplVars, valVars>>

NextFilter == FilterStep

SpecFilter == InitFilter /\ [][NextFilter]_vars

----------------------------------------------------------------------------
(* eval_ppl_on_path *)

MaxBatches == 2  \* batches the iterator yields
MaxPos == 2      \* target positions in one batch

\* The summed-loss contribution of one position: F.cross_entropy of the
\* model's prediction against y there.
LossVals == {1}

\* A batch as the loop reads it: the per-position loss of model(x) against y,
\* and the mask (has_mask = FALSE is batch.mask = None).
Batches ==
    UNION {
        {[loss |-> l, has_mask |-> FALSE, mask |-> <<>>] : l \in [1..k -> LossVals]}
        \cup {[loss |-> l, has_mask |-> TRUE, mask |-> m] :
                  l \in [1..k -> LossVals], m \in [1..k -> BOOLEAN]}
        : k \in 1..MaxPos}

TokenizerNames == {"bytes", "blt", "sp"}

\* mask.sum()
mask_sum(mask) == Cardinality({i \in 1..Len(mask) : mask[i]})

\* a / b of two non-negative numbers, kept as the pair; b = 0 raises
true_div(a, b) ==
    IF b = 0 THEN [kind |-> "ZeroDivisionError", num |-> a, den |-> b]
    ELSE [kind |-> "ratio", num |-> a, den |-> b]

\* math.exp(x), kept as the argument it was applied to
exp(x) == IF x.kind = "ratio" THEN [x EXCEPT !.kind = "exp"] ELSE x

\* the float 0.0
Zero == [kind |-> "float", num |-> 0, den |-> 1]

\* line 217 without its guard
ppl_unguarded(loss, n) == exp(true_div(loss, n))

\* line 217: math.exp(total_loss / n_bytes) if n_bytes > 0 else 0.0
ppl(loss, n) == IF n > 0 THEN exp(true_div(loss, n)) ELSE Zero

InitPpl == IdleGenerator /\ IdleHarness /\ IdleFilter /\ IdleVal /\ IdlePpl

OtherThanPpl == <<harnessVars, filterVars, valVars>>

\* lines 149-202: the pipeline is built; exactly one chunk must be found
eval_ppl_on_path_begin(name, n_chunks) ==
    /\ p_pc = "init"
    /\ p_name' = name
    /\ IF n_chunks = 1
       THEN p_pc' = "loop" /\ UNCHANGED p_outcome
       ELSE p_pc' = "done" /\ p_outcome' = "AssertionError"
    /\ UNCHANGED <<p_batches, total_loss, n_bytes, p_result>>

\* lines 203-213: one iteration of `for batch in batch_iterator`
eval_ppl_on_path_batch(batch) ==
    /\ p_pc = "loop"
    /\ Len(p_batches) < MaxBatches
    /\ p_batches' = Append(p_batches, batch)
    /\ IF p_name \in {"bytes", "blt"}
       THEN /\ n_bytes' = n_bytes + (IF batch.has_mask THEN mask_sum(batch.mask)
                                                      ELSE Len(batch.loss))
            /\ total_loss' = total_loss + SumSeq(batch.loss)
            /\ UNCHANGED <<p_pc, p_outcome>>
       ELSE /\ p_pc' = "done"
            /\ p_outcome' = "NotImplementedError"
            /\ UNCHANGED <<n_bytes, total_loss>>
    /\ UNCHANGED <<p_name, p_result>>

\* lines 214-218: the iterator is exhausted, the dict is returned
eval_ppl_on_path_return ==
    /\ p_pc = "loop"
    /\ p_pc' = "done"
    /\ LET v == ppl(total_loss, n_bytes)
       IN IF v.kind = "ZeroDivisionError"
          THEN p_outcome' = "ZeroDivisionError" /\ UNCHANGED p_result
          ELSE /\ p_outcome' = "ok"
               /\ p_result' = [n_bytes |-> n_bytes, loss_sum |-> total_loss, ppl |-> v]
    /\ UNCHANGED <<p_name, p_batches, total_loss, n_bytes>>

PplBegin ==
    /\ p_pc = "init"
    /\ \E name \in TokenizerNames, n_chunks \in 0..2 : eval_ppl_on_path_begin(name, n_chunks)
    /\ UNCHANGED OtherThanPpl

PplBatch ==
    /\ p_pc = "loop"
    /\ \E batch \in Batches : eval_ppl_on_path_batch(batch)
    /\ UNCHANGED OtherThanPpl

PplReturn ==
    /\ eval_ppl_on_path_return
    /\ UNCHANGED OtherThanPpl

NextPpl ==
    \/ PplBegin
    \/ PplBatch
    \/ PplReturn

SpecPpl == InitPpl /\ [][NextPpl]_vars

----------------------------------------------------------------------------
(* eval_on_val.  A path is the sequence of its components and a component   *)
(* is text; the sources are relative paths.                                 *)

MaxSrc == 2      \* sources in val_args.sources, and in train_cfg.data.sources

X == <<"x">>
X_1 == <<"x", "_", "1">>
SrcSet == {<< <<"d">>, X>>, << <<"e">>, X>>, <<X_1>>}
ValRoot == << <<"v">> >>
TrainRoot == << <<"t">> >>
MetricVals == {10, 20}

\* os.path.join(root_dir, src) for a relative src
join(root_dir, src) == root_dir \o src

\* os.path.basename(path)
basename(path) == path[Len(path)]

\* The keys of a dict filled by `d[k] = ...` for k in ks, in insertion order.
RECURSIVE dict_keys(_)
dict_keys(ks) ==
    IF ks = <<>> THEN <<>>
    ELSE LET front == dict_keys(SubSeq(ks, 1, Len(ks) - 1))
             last == ks[Len(ks)]
         IN IF \E i \in 1..Len(front) : front[i] = last THEN front ELSE Append(front, last)

\* d[key] = value
dict_set(d, key, value) ==
    [k \in DOMAIN d \cup {key} |-> IF k = key THEN value ELSE d[k]]

InitVal == InitGenerator /\ IdleHarness /\ IdleFilter /\ IdlePpl /\ IdleVal

OtherThanVal == <<gen0, pc, op, requests, pre, seen, generations, lls, greedy,
                  outcome, results, failed, filterVars, pplVars>>

\* lines 222-260: the paths, one iterator per path, max_gen_len lowered
eval_on_val_begin(val_sources, train_sources, chunks_ok) ==
    /\ v_pc = "init"
    /\ LET srcs == [i \in 1..Len(val_sources) |-> join(ValRoot, val_sources[i])]
                    \o [i \in 1..Len(train_sources) |-> join(TrainRoot, train_sources[i])]
       IN /\ v_srcs' = srcs
          /\ IF srcs # <<>> /\ ~chunks_ok
             THEN /\ v_pc' = "done"
                  /\ v_outcome' = "AssertionError"
                  /\ UNCHANGED <<path_to_iter, gen, max_gen_len>>
             ELSE /\ path_to_iter' = dict_keys(srcs)
                  /\ max_gen_len' = gen.max_gen_len
                  /\ gen' = [gen EXCEPT !.max_gen_len = 1]
                  /\ v_pc' = "loop"
                  /\ UNCHANGED v_outcome
    /\ UNCHANGED <<v_i, all_val_metrics>>

\* lines 261-290: one iteration of `for src in path_to_iter`; raised is the
\* exception generator.generate or the averaging raises, or "none"
eval_on_val_source(metrics, raised) ==
    /\ v_pc = "loop"
    /\ v_i < Len(path_to_iter)
    /\ v_i' = v_i + 1
    /\ IF raised # "none"
       THEN /\ v_pc' = "done"
            /\ v_outcome' = raised
            /\ UNCHANGED all_val_metrics
       ELSE /\ LET src == path_to_iter[v_i + 1]
                   name == basename(src)
                   key == IF name \in DOMAIN all_val_metrics
                          THEN name \o <<"_", "1">> ELSE name
               IN all_val_metrics' = dict_set(all_val_metrics, key, metrics)
            /\ UNCHANGED <<v_pc, v_outcome>>
    /\ UNCHANGED <<v_srcs, path_to_iter, gen, max_gen_len>>

\* lines 292-294: max_gen_len restored, the mapping returned
eval_on_val_return ==
    /\ v_pc = "loop"
    /\ v_i = Len(path_to_iter)
    /\ gen' = [gen EXCEPT !.max_gen_len = max_gen_len]
    /\ v_pc' = "done"
    /\ v_outcome' = "ok"
    /\ UNCHANGED <<v_srcs, path_to_iter, v_i, all_val_metrics, max_gen_len>>

ValBegin ==
    /\ v_pc = "init"
    /\ \E val_sources \in SeqsUpTo(SrcSet, MaxSrc), train_sources \in SeqsUpTo(SrcSet, MaxSrc),
          chunks_ok \in BOOLEAN :
           eval_on_val_begin(val_sources, train_sources, chunks_ok)
    /\ UNCHANGED OtherThanVal

ValSource ==
    /\ v_pc = "loop"
    /\ \E metrics \in MetricVals, raised \in {"none", "GenerateError", "ZeroDivisionError"} :
           eval_on_val_source(metrics, raised)
    /\ UNCHANGED OtherThanVal

ValReturn ==
    /\ eval_on_val_return
    /\ UNCHANGED OtherThanVal

NextVal ==
    \/ ValBegin
    \/ ValSource
    \/ ValReturn

SpecVal == InitVal /\ [][NextVal]_vars

----------------------------------------------------------------------------
(* Properties *)

\* C1: when a loglikelihood or loglikelihood_rolling call has ended, normally
\* or with an exception, generator.max_gen_len equals its value before the call.
C1_MaxGenLenRestored ==
    (pc = "idle" /\ op \in {"loglikelihood", "loglikelihood_rolling"})
        => gen.max_gen_len = pre.max_gen_len

\* C2: after any sequence of adapter calls that all returned, every field of
\* the generator equals the value it had before the first call.
C2_ConfigurationRestored ==
    (pc = "idle" /\ ~failed) => gen = gen0

Heterogeneous(reqs) ==
    \E i, j \in 1..Len(reqs) : reqs[i][2] # reqs[j][2]

\* C3: a generate_until batch in which two requests carry unequal parameter
\* sets ends in the assertion failure, with generator.generate never invoked,
\* no generator field changed and nothing returned.
C3_HeterogeneousBatchFails ==
    (op = "generate_until" /\ Heterogeneous(requests))
        => /\ pc = "idle"
           /\ outcome = "AssertionError"
           /\ seen = <<>>
           /\ gen = pre
           /\ generations = <<>>
           /\ results = <<>>

\* C3 witness: a two-request batch differing in `until` only has failed, on a
\* generator an earlier generate_until had already reconfigured.
C3_Witness ==
    /\ op = "generate_until"
    /\ outcome = "AssertionError"
    /\ Len(requests) = 2
    /\ requests[1][2].temperature = requests[2][2].temperature
    /\ requests[1][2].until # requests[2][2].until
    /\ gen # gen0
    /\ gen = pre

\* e occurs in g
Contains(g, e) ==
    \E k \in 1..(Len(g) - Len(e) + 1) : SubSeq(g, k, k + Len(e) - 1) = e

\* C4: once the stop-string loop has run, the generation contains no
\* occurrence of any (non-empty) configured stop string.
C4_NoStopStringLeft ==
    f_i = Len(f_until)
        => \A j \in 1..Len(f_until) : Len(f_until[j]) > 0 => ~Contains(f_g, f_until[j])

\* C5: a call that got through its loop returns normally, with
\* ppl = exp(loss_sum / n_bytes) when n_bytes > 0 and 0.0 when n_bytes = 0;
\* in particular an empty or all-masked stream returns n_bytes 0 and ppl 0.0.
C5_PerplexityDefined ==
    (p_pc = "done" /\ p_outcome \notin {"AssertionError", "NotImplementedError"})
        => /\ p_outcome = "ok"
           /\ p_result.n_bytes = n_bytes
           /\ p_result.loss_sum = total_loss
           /\ p_result.n_bytes > 0 =>
                  p_result.ppl = [kind |-> "exp", num |-> p_result.loss_sum,
                                  den |-> p_result.n_bytes]
           /\ p_result.n_bytes = 0 => p_result.ppl = Zero
           /\ (\A i \in 1..Len(p_batches) :
                    /\ p_batches[i].has_mask
                    /\ \A k \in 1..Len(p_batches[i].mask) : ~p_batches[i].mask[k])
                  => (p_result.n_bytes = 0 /\ p_result.ppl = Zero)

\* C5 witness: batches were consumed, every mask entry was false, and the call
\* returned ppl 0.0 with a positive loss_sum.
C5_Witness ==
    /\ p_pc = "done"
    /\ p_outcome = "ok"
    /\ Len(p_batches) = 2
    /\ p_result.n_bytes = 0
    /\ p_result.loss_sum > 0
    /\ p_result.ppl = Zero

\* C6: with a tokenizer family other than bytes or blt, a call that found its
\* chunk always ends in NotImplementedError and never returns metrics.
C6_UnsupportedTokenizerFails ==
    (p_pc = "done" /\ p_name \notin {"bytes", "blt"} /\ p_outcome # "AssertionError")
        => p_outcome = "NotImplementedError"

Distinct(seq) ==
    \A i, j \in 1..Len(seq) : i # j => seq[i] # seq[j]

\* C7: for sources at distinct paths, the mapping eval_on_val returns has one
\* entry per source.
C7_OneEntryPerSource ==
    (v_pc = "done" /\ v_outcome = "ok" /\ Distinct(v_srcs))
        => Cardinality(DOMAIN all_val_metrics) = Len(v_srcs)

RECURSIVE filter_first(_, _)
filter_first(g, until) ==
    IF until = <<>> THEN g ELSE filter_first(replace_first(g, Head(until)), Tail(until))

\* C8 as stated: each stop string applied so far has removed at most its
\* first occurrence.
C8_OneOccurrencePerStop ==
    f_g = filter_first(f_raw, SubSeq(f_until, 1, f_i))

\* The start positions of the occurrences of e that one left-to-right pass
\* over g takes, scanning from position i.
RECURSIVE Starts(_, _, _)
Starts(g, e, i) ==
    IF Len(e) = 0 \/ i + Len(e) - 1 > Len(g) THEN {}
    ELSE IF SubSeq(g, i, i + Len(e) - 1) = e
         THEN {i} \cup Starts(g, e, i + Len(e))
         ELSE Starts(g, e, i + 1)

\* The positions of g outside those occurrences.
Kept(g, e) ==
    {q \in 1..Len(g) : ~\E st \in Starts(g, e, 1) : st <= q /\ q < st + Len(e)}

\* g at the positions P, in increasing order
RECURSIVE Restrict(_, _, _)
Restrict(g, P, i) ==
    IF i > Len(g) THEN <<>>
    ELSE (IF i \in P THEN <<g[i]>> ELSE <<>>) \o Restrict(g, P, i + 1)

RECURSIVE AllPasses(_, _)
AllPasses(g, until) ==
    IF until = <<>> THEN g
    ELSE AllPasses(Restrict(g, Kept(g, Head(until)), 1), Tail(until))

\* a is b with some positions left out
RECURSIVE IsSubseq(_, _)
IsSubseq(a, b) ==
    IF a = <<>> THEN TRUE
    ELSE IF b = <<>> THEN FALSE
    ELSE IF Head(a) = Head(b) THEN IsSubseq(Tail(a), Tail(b))
    ELSE IsSubseq(a, Tail(b))

\* C8 as amended: the stop strings are applied in the order supplied, each
\* in one left-to-right pass that removes every non-overlapping occurrence
\* present at that point, and the characters outside the removed occurrences
\* keep their order.
C8_EveryOccurrencePerPass ==
    /\ f_g = AllPasses(f_raw, SubSeq(f_until, 1, f_i))
    /\ IsSubseq(f_g, f_raw)

\* C8 witness: the first stop string occurred twice and both occurrences went;
\* the second occurred only once they had gone, and went too.
C8_Witness ==
    /\ f_i = 2
    /\ Len(f_until) = 2
    /\ Cardinality(Starts(f_raw, f_until[1], 1)) = 2
    /\ ~Contains(f_raw, f_until[2])
    /\ Len(f_until[2]) = 2
    /\ f_g = <<>>

\* The sum of ll at the positions S.
RECURSIVE SumAt(_, _)
SumAt(ll, S) ==
    IF S = {} THEN 0
    ELSE LET k == CHOOSE k \in S : TRUE IN ll[k] + SumAt(ll, S \ {k})

\* C9: loglikelihood invokes the generator once (with max_gen_len 1) and
\* returns, for the i-th request, the sum of ll and the conjunction of greedy
\* over exactly the positions after the first p_len, p_len being the
\* tokenized length of the i-th context.
C9_ContinuationPositions ==
    (op = "loglikelihood" /\ pc = "idle" /\ outcome = "ok")
        => /\ Len(seen) = 1
           /\ seen[1].max_gen_len = 1
           /\ Len(results) = Len(requests)
           /\ \A i \in 1..Len(requests) :
                  LET p_len == Len(encode(requests[i][1]))
                      cont == {k \in 1..Len(lls[i]) : k > p_len}
                  IN /\ results[i][1] = SumAt(lls[i], cont)
                     /\ results[i][2] = (\A k \in cont : greedy[i][k])

\* C9 witness: two requests; the first has a one-token context whose position
\* was not the argmax and a continuation position that was, and its result
\* reports the continuation only; the second has an empty context.
C9_Witness ==
    /\ op = "loglikelihood"
    /\ pc = "idle"
    /\ outcome = "ok"
    /\ Len(requests) = 2
    /\ requests[1][1] = <<"a">>
    /\ requests[2][1] = <<>>
    /\ lls[1] = <<-2, -1>>
    /\ lls[2] = <<-2, -1>>
    /\ results[1] = <<-1, TRUE>>
    /\ results[2] = <<-3, FALSE>>

\* The positions of a batch that n_bytes counts.
Counted(b) ==
    {k \in 1..Len(b.loss) : ~b.has_mask \/ b.mask[k]}

RECURSIVE CountedPositions(_)
CountedPositions(bs) ==
    IF bs = <<>> THEN 0 ELSE Cardinality(Counted(Head(bs))) + CountedPositions(Tail(bs))

RECURSIVE CountedLoss(_)
CountedLoss(bs) ==
    IF bs = <<>> THEN 0
    ELSE SumAt(Head(bs).loss, Counted(Head(bs))) + CountedLoss(Tail(bs))

\* C10: for the supported tokenizer families, n_bytes is the number of
\* counted positions of the batches consumed and loss_sum is the loss of
\* exactly those positions.
C10_LossOverCountedPositions ==
    p_name \in {"bytes", "blt"}
        => /\ n_bytes = CountedPositions(p_batches)
           /\ total_loss = CountedLoss(p_batches)

====
